---- MODULE Spec2Model ----
(***************************************************************************)
(* Model of scripts/import_avaone_q1.py: the spreadsheet importer that     *)
(* reconciles a workbook against the task/document store and emits a batch *)
(* of create / update / soft-delete actions plus a manifest.                *)
(*                                                                         *)
(* Text is modelled as tuples of one-character strings, so that replace(), *)
(* lower() and the substring tests of the script are computed, not assumed. *)
(***************************************************************************)
EXTENDS Integers, Sequences, FiniteSets, TLC

\* ------------------------------------------------------------------ bounds

\* Task record ids of the store are 1..MaxId.
MaxId == 1

\* Document ids of the store.
DocIds == {1, 2}

\* ------------------------------------------------------------------- text

\* str.replace(old, new) on single characters.
Replace(s, old, new) == [i \in DOMAIN s |-> IF s[i] = old THEN new ELSE s[i]]

\* str.lower() on the alphabet the model uses.
LowerChar(c) ==
    CASE c = "A" -> "a" [] c = "B" -> "b" [] c = "H" -> "h"
      [] c = "N" -> "n" [] c = "G" -> "g" [] c = "S" -> "s"
      [] c = "V" -> "v" [] c = "O" -> "o" [] OTHER -> c

Lower(s) == [i \in DOMAIN s |-> LowerChar(s[i])]

\* Python's `sub in s` on strings.
Contains(sub, s) ==
    \E i \in 0..(Len(s) - Len(sub)) : SubSeq(s, i + 1, i + Len(sub)) = sub

\* s[:n]
Prefix(s, n) == SubSeq(s, 1, IF Len(s) < n THEN Len(s) ELSE n)

Empty == << >>

\* ----------------------------------------------------------------- source

\* A data row as the field extractor sees it: get_val(row, ["species"]),
\* the first cell, get_val(row, ["tier"]) and get_val(row, ["start date", ...]).
RowBlank == [species |-> Empty, first |-> Empty, tier |-> Empty, start_date |-> Empty]
RowStd   == [species |-> <<"p">>, first |-> <<"p">>,
             tier |-> <<"S","t","a","n","d","a","r","d">>, start_date |-> Empty]
RowHero  == [species |-> Empty, first |-> <<"q">>,
             tier |-> <<"H","e","r","o"," ","V","a","r","i","a","n","t">>,
             start_date |-> <<"2","0","2","6","-","0","1","-","0","5"," ","0","9">>]

NameAB   == <<"A"," ","B">>
NameA_B  == <<"A","_","B">>
NameNana == <<"N","a","n","a","G","a","r","d","e","n">>
NameOps  == <<"O","p","s"," ","n","o","t","e","s">>

\* A sheet: its name, the shape test of line 78, the header row found by the
\* scan of lines 81-90 (0 when no row of the first five has two non-empty
\* cells) and the rows below the header.
TableSheet(name, hdr, rows) ==
    [name |-> name, is_table |-> TRUE, header_row |-> hdr, rows |-> rows]
ReferenceSheet(name) ==
    [name |-> name, is_table |-> FALSE, header_row |-> 0, rows |-> << >>]

SheetOps  == ReferenceSheet(NameOps)
SheetAB   == TableSheet(NameAB, 2, <<RowStd, RowHero>>)
SheetA_B  == TableSheet(NameA_B, 1, <<RowBlank, RowHero>>)
SheetNana == TableSheet(NameNana, 1, <<RowStd, RowHero>>)

\* wb.sheetnames and the sheets behind them: the workbooks the user may put
\* at EXCEL_FILE. Going from one to another adds or removes sheets and rows.
Workbooks ==
    { <<SheetAB>>,
      <<SheetNana>>,
      <<SheetAB, SheetA_B>>,
      <<SheetAB, SheetNana>>,
      <<SheetOps, SheetNana>> }

NoWorkbook == << >>

\* ------------------------------------------------------------------- tags

\* f"src:xl:{sheet_name.replace(' ', '_')}:r{row_idx}": the text is determined
\* by, and determines, the normalised sheet name and the row number.
SrcTag(sheet_name, row_idx) ==
    [sheet |-> Replace(sheet_name, " ", "_"), row |-> row_idx]

NoTag == [sheet |-> Empty, row |-> 0]

\* Lines 78 and 102: a row table needs the shape and a header row.
IsTableSheet(sheet) == sheet.is_table /\ sheet.header_row > 0

\* Lines 112-118: the species column, else the first cell.
PrimaryVal(row) == IF row.species # Empty THEN row.species ELSE row.first

\* Lines 121-124: the priority subset, applied on NanaGarden sheets only.
TierAllowed(sheet_name, row, top15_only) ==
    LET is_nana == Contains(NameNana, sheet_name)
        t_lower == Lower(row.tier)
    IN  ~(is_nana /\ top15_only)
        \/ Contains(<<"h","e","r","o">>, t_lower)
        \/ Contains(<<"s","i","g","n","a","t","u","r","e">>, t_lower)

\* The rows of a sheet that reach line 131, as positions in sheet.rows.
TaggedRows(sheet, top15_only) ==
    SelectSeq([i \in 1..Len(sheet.rows) |-> i],
              LAMBDA i : /\ PrimaryVal(sheet.rows[i]) # Empty
                         /\ TierAllowed(sheet.name, sheet.rows[i], top15_only))

\* enumerate(..., start=header_row+1)
RowIdx(sheet, i) == sheet.header_row + i

\* ---------------------------------------------------------------- actions

NoTitle == [kind |-> "none", sheet |-> Empty, primary |-> Empty, tier |-> Empty]
NoNotes == [project |-> FALSE, tag |-> NoTag, removed |-> FALSE]
NoContent == [kind |-> "none", mode |-> "", created |-> 0, updated |-> 0, removed |-> 0]

\* One entry of the payload's "actions" list. A key the script does not set
\* holds its empty value: id 0, status "", priority 0, scheduled_date << >>.
Action(type, saveAs, id, title, workspace, notes, status, bucket, priority, sched, content) ==
    [type |-> type, saveAs |-> saveAs, id |-> id, title |-> title,
     workspace |-> workspace, notes |-> notes, status |-> status,
     schedule_bucket |-> bucket, priority |-> priority,
     scheduled_date |-> sched, content_md |-> content]

\* Lines 161-163.
Workspace(sheet_name) ==
    IF Contains(<<"o","p","s">>, Lower(sheet_name)) THEN "ops"
    ELSE IF Contains(<<"a","v","a","c","r","m">>, Lower(sheet_name)) THEN "avacrm"
    ELSE "content"

\* Mutant: every row is created, the index is never looked up.
RowAction_AlwaysCreate(mode, sync_timeline, db_tasks, sheet, i) ==
    LET row   == sheet.rows[i]
        dated == row.start_date # Empty
    IN  Action("task.create", "", 0,
               [kind |-> "row", sheet |-> sheet.name,
                primary |-> PrimaryVal(row), tier |-> row.tier],
               Workspace(sheet.name),
               [project |-> TRUE, tag |-> SrcTag(sheet.name, RowIdx(sheet, i)),
                removed |-> FALSE],
               IF dated THEN "planned" ELSE "inbox",
               IF dated THEN "morning" ELSE "none", 2,
               IF sync_timeline /\ dated THEN Prefix(row.start_date, 10) ELSE Empty,
               NoContent)

\* Mutant: the index decides in create mode too.
RowAction_IndexFirst(mode, sync_timeline, db_tasks, sheet, i) ==
    LET row   == sheet.rows[i]
        src_tag == SrcTag(sheet.name, RowIdx(sheet, i))
        dated == row.start_date # Empty
        timed == sync_timeline /\ dated
        title == [kind |-> "row", sheet |-> sheet.name,
                  primary |-> PrimaryVal(row), tier |-> row.tier]
        notes == [project |-> TRUE, tag |-> src_tag, removed |-> FALSE]
    IN  IF src_tag \notin DOMAIN db_tasks
        THEN Action("task.create", "", 0, title, Workspace(sheet.name), notes,
                    IF dated THEN "planned" ELSE "inbox",
                    IF dated THEN "morning" ELSE "none", 2,
                    IF timed THEN Prefix(row.start_date, 10) ELSE Empty, NoContent)
        ELSE Action("task.update", "", db_tasks[src_tag], title,
                    Workspace(sheet.name), notes,
                    IF timed THEN "planned" ELSE "", IF timed THEN "morning" ELSE "",
                    0, IF timed THEN Prefix(row.start_date, 10) ELSE Empty, NoContent)

\* Mutant: an update carries the workflow-state fields of every dated row.
RowAction_TimelineAlways(mode, sync_timeline, db_tasks, sheet, i) ==
    LET row     == sheet.rows[i]
        src_tag == SrcTag(sheet.name, RowIdx(sheet, i))
        dated   == row.start_date # Empty
        title   == [kind |-> "row", sheet |-> sheet.name,
                    primary |-> PrimaryVal(row), tier |-> row.tier]
        notes   == [project |-> TRUE, tag |-> src_tag, removed |-> FALSE]
    IN  IF mode = "create" \/ src_tag \notin DOMAIN db_tasks
        THEN Action("task.create", "", 0, title, Workspace(sheet.name), notes,
                    IF dated THEN "planned" ELSE "inbox",
                    IF dated THEN "morning" ELSE "none", 2,
                    IF sync_timeline /\ dated THEN Prefix(row.start_date, 10) ELSE Empty,
                    NoContent)
        ELSE Action("task.update", "", db_tasks[src_tag], title,
                    Workspace(sheet.name), notes,
                    IF dated THEN "planned" ELSE "", IF dated THEN "morning" ELSE "",
                    0, IF dated THEN Prefix(row.start_date, 10) ELSE Empty, NoContent)

\* Lines 126-202: the action of one tagged row.
RowAction(mode, sync_timeline, db_tasks, sheet, i) ==
    LET row      == sheet.rows[i]
        src_tag  == SrcTag(sheet.name, RowIdx(sheet, i))
        title    == [kind |-> "row", sheet |-> sheet.name,
                     primary |-> PrimaryVal(row), tier |-> row.tier]
        notes    == [project |-> TRUE, tag |-> src_tag, removed |-> FALSE]
        dated    == row.start_date # Empty
        task_status == IF dated THEN "planned" ELSE "inbox"
        task_bucket == IF dated THEN "morning" ELSE "none"
        sched    == IF sync_timeline /\ dated THEN Prefix(row.start_date, 10) ELSE Empty
    IN  IF mode = "create" \/ src_tag \notin DOMAIN db_tasks
        THEN Action("task.create", "", 0, title, Workspace(sheet.name), notes,
                    task_status, task_bucket, 2, sched, NoContent)
        ELSE Action("task.update", "", db_tasks[src_tag], title,
                    Workspace(sheet.name), notes,
                    IF sync_timeline /\ dated THEN task_status ELSE "",
                    IF sync_timeline /\ dated THEN task_bucket ELSE "",
                    0, sched, NoContent)

\* Lines 206-220: a reference sheet becomes one document.
ReferenceAction(sheet) ==
    Action("doc.create", "", 0,
           [kind |-> "reference", sheet |-> sheet.name, primary |-> Empty, tier |-> Empty],
           "", NoNotes, "", "", 0, Empty,
           [kind |-> "reference", mode |-> "", created |-> 0, updated |-> 0, removed |-> 0])

\* Mutant: a reference sheet is created in create mode only.
SheetActions_ReferenceOnCreate(mode, top15_only, sync_timeline, db_tasks, sheet) ==
    IF IsTableSheet(sheet)
    THEN LET rs == TaggedRows(sheet, top15_only)
         IN  [k \in 1..Len(rs) |-> RowAction(mode, sync_timeline, db_tasks, sheet, rs[k])]
    ELSE IF mode = "create" THEN << ReferenceAction(sheet) >> ELSE << >>

\* Lines 74-221, one sheet: its actions in row order.
SheetActions(mode, top15_only, sync_timeline, db_tasks, sheet) ==
    IF IsTableSheet(sheet)
    THEN LET rs == TaggedRows(sheet, top15_only)
         IN  [k \in 1..Len(rs) |-> RowAction(mode, sync_timeline, db_tasks, sheet, rs[k])]
    ELSE << ReferenceAction(sheet) >>

\* Mutant: the tag is appended before the tier filter is applied.
SheetTags_BeforeFilter(top15_only, sheet) ==
    IF IsTableSheet(sheet)
    THEN LET rs == TaggedRows(sheet, FALSE)
         IN  [k \in 1..Len(rs) |-> SrcTag(sheet.name, RowIdx(sheet, rs[k]))]
    ELSE << >>

\* Lines 131-132, one sheet: the tags appended to current_src_tags.
SheetTags(top15_only, sheet) ==
    IF IsTableSheet(sheet)
    THEN LET rs == TaggedRows(sheet, top15_only)
         IN  [k \in 1..Len(rs) |-> SrcTag(sheet.name, RowIdx(sheet, rs[k]))]
    ELSE << >>

RECURSIVE Flatten(_)
Flatten(seqs) == IF seqs = << >> THEN << >> ELSE Head(seqs) \o Flatten(Tail(seqs))

\* Lines 74-221: the loop over wb.sheetnames.
SheetLoopActions(mode, top15_only, sync_timeline, db_tasks, book) ==
    Flatten([s \in DOMAIN book |->
                SheetActions(mode, top15_only, sync_timeline, db_tasks, book[s])])

CurrentSrcTags(top15_only, book) ==
    Flatten([s \in DOMAIN book |-> SheetTags(top15_only, book[s])])

Range(seq) == { seq[i] : i \in DOMAIN seq }

\* Mutant: the previous tags are not diffed against the current ones.
RemovedTags_NoDiff(mode, manifest, current_src_tags) ==
    IF mode = "sync" THEN Range(manifest.src_tags) ELSE {}

\* Mutant: the diff is computed in create mode too.
RemovedTags_AnyMode(mode, manifest, current_src_tags) ==
    Range(manifest.src_tags) \ Range(current_src_tags)

\* Lines 224-227: the tags of the previous manifest that this run did not see.
RemovedTags(mode, manifest, current_src_tags) ==
    IF mode = "sync" THEN Range(manifest.src_tags) \ Range(current_src_tags) ELSE {}

\* Mutant: the record is deleted instead of being marked done.
SoftDeleteAction_HardDelete(db_tasks, rtag) ==
    Action("task.delete", "", db_tasks[rtag], NoTitle, "", NoNotes,
           "", "", 0, Empty, NoContent)

\* Lines 231-238.
SoftDeleteAction(db_tasks, rtag) ==
    Action("task.update", "", db_tasks[rtag], NoTitle, "",
           [project |-> FALSE, tag |-> NoTag, removed |-> TRUE],
           "done", "", 0, Empty, NoContent)

\* The orders in which `for rtag in removed_tags` can visit a set.
Orders(S) == { o \in [1..Cardinality(S) -> S] : Range(o) = S }

\* Mutant: the removed tags are computed but no action is emitted for them.
SoftDeletes_None(db_tasks, order) == << >>

\* Lines 229-239, visiting the removed tags in the order `order`.
SoftDeletes(db_tasks, order) ==
    LET hit == SelectSeq(order, LAMBDA t : t \in DOMAIN db_tasks)
    IN  [k \in 1..Len(hit) |-> SoftDeleteAction(db_tasks, hit[k])]

CountType(acts, type) == Cardinality({ k \in DOMAIN acts : acts[k].type = type })

\* Mutant: the reference alone decides, create mode updates too.
ControlAction_ByReference(mode, control_doc_id, rowActs, softActs) ==
    LET content == [kind |-> "control", mode |-> mode,
                    created |-> CountType(rowActs, "task.create"),
                    updated |-> CountType(rowActs, "task.update"),
                    removed |-> Len(softActs)]
        title == [kind |-> "control", sheet |-> Empty, primary |-> Empty, tier |-> Empty]
    IN  IF control_doc_id = 0
        THEN Action("doc.create", "control_doc", 0, title, "", NoNotes,
                    "", "", 0, Empty, content)
        ELSE Action("doc.update", "", control_doc_id, title, "", NoNotes,
                    "", "", 0, Empty, content)

\* Lines 242-279: the control document, created or updated.
ControlAction(mode, control_doc_id, rowActs, softActs) ==
    LET content == [kind |-> "control", mode |-> mode,
                    created |-> CountType(rowActs, "task.create"),
                    updated |-> CountType(rowActs, "task.update"),
                    removed |-> Len(softActs)]
        title == [kind |-> "control", sheet |-> Empty, primary |-> Empty, tier |-> Empty]
    IN  IF mode = "create" \/ control_doc_id = 0
        THEN Action("doc.create", "control_doc", 0, title, "", NoNotes,
                    "", "", 0, Empty, content)
        ELSE Action("doc.update", "", control_doc_id, title, "", NoNotes,
                    "", "", 0, Empty, content)

\* Mutant: the control action is appended instead of inserted at index 0.
BuildActions_ControlLast(mode, top15_only, sync_timeline, db_tasks, control_doc_id, manifest, book, order) ==
    LET rowActs  == SheetLoopActions(mode, top15_only, sync_timeline, db_tasks, book)
        softActs == SoftDeletes(db_tasks, order)
    IN  rowActs \o softActs \o << ControlAction(mode, control_doc_id, rowActs, softActs) >>

\* Lines 65-279: the whole batch; the control action is inserted at index 0.
\* `order` lists the removed tags of lines 224-227 as the loop visits them.
BuildActions(mode, top15_only, sync_timeline, db_tasks, control_doc_id, manifest, book, order) ==
    LET rowActs  == SheetLoopActions(mode, top15_only, sync_timeline, db_tasks, book)
        softActs == SoftDeletes(db_tasks, order)
    IN  << ControlAction(mode, control_doc_id, rowActs, softActs) >> \o rowActs \o softActs

\* Lines 288-291.
NewManifest(current_src_tags, control_doc_id) ==
    [kind |-> "valid", src_tags |-> current_src_tags, control_doc_id |-> control_doc_id]

\* ------------------------------------------------------------------ store

\* Every tag a workbook of the model can produce.
Tags ==
    UNION { Range(CurrentSrcTags(FALSE, w)) : w \in Workbooks }

\* Lines 31-36: the Existing-Record Index. `tasks` gives, per record id, the
\* tag that the regular expression finds in the notes of a record the LIKE
\* query returns (NoTag: no such record). One record per tag survives the
\* loop, whichever comes last in the unordered result.
DbTaskIndexes(store_tasks) ==
    LET found == { store_tasks[i] : i \in DOMAIN store_tasks } \ {NoTag}
    IN  { f \in [found -> DOMAIN store_tasks] : \A t \in found : store_tasks[f[t]] = t }


NoIndex == [t \in {} |-> 0]

\* How the store can answer lines 27-44: "ok"; "absent" (no file at DB_PATH);
\* "tasks_fail" or "docs_fail" (sqlite3.OperationalError raised by the first
\* or by the second query); "corrupt" (the file is not a database: the first
\* query raises sqlite3.DatabaseError).
StoreAnswers == {"ok", "absent", "tasks_fail", "docs_fail", "corrupt"}

\* Lines 25-44: what the run knows of the store. The except clause of line 43
\* keeps whatever lines 31-41 assigned before the error.
ReadStore(db, index, doc) ==
    CASE db = "ok"        -> [db_tasks |-> index,   control_doc_id |-> doc]
      [] db = "docs_fail" -> [db_tasks |-> index,   control_doc_id |-> 0]
      [] OTHER            -> [db_tasks |-> NoIndex, control_doc_id |-> 0]

\* Line 43 catches sqlite3.OperationalError only.
StoreRaises(db) == db = "corrupt"

DefaultManifest == [kind |-> "valid", src_tags |-> << >>, control_doc_id |-> 0]
AbsentManifest  == [kind |-> "absent", src_tags |-> << >>, control_doc_id |-> 0]

\* Lines 47-53: a missing file or a JSON parse error leaves the default.
LoadManifest(file) == IF file.kind \in {"absent", "unparseable"} THEN DefaultManifest ELSE file

\* Lines 55-56: the store's answer wins over the manifest's reference.
ResolveControlDoc(db_control_doc_id, manifest) ==
    IF db_control_doc_id = 0 /\ manifest.control_doc_id # 0
    THEN manifest.control_doc_id ELSE db_control_doc_id

\* ------------------------------------------------------------------ state

VARIABLES
    wb,               \* EXCEL_FILE: the workbook's sheets, NoWorkbook when missing
    tasks,            \* store: record id -> tag found in the record's notes
    docs,             \* store: id of the first document carrying the control marker, or 0
    manifestFile,     \* MANIFEST_FILE
    outFile,          \* OUT_FILE: whether it holds a payload (a run writes its `actions`)
    pc,               \* "idle", or how the last run of main() ended
    mode,             \* locals of main(), kept until the process is gone
    top15_only,
    sync_timeline,
    db_tasks,
    control_doc_id,
    manifest,
    current_src_tags,
    actions,
    db_answer,        \* how the store answered lines 27-44 in this run
    proc,             \* the locals of each of two processes running main() at once
    prev              \* history: MODE and TOP15_ONLY of the last completed run on the
                      \* workbook now at EXCEL_FILE and the tags whose records it
                      \* soft-deleted; NoRun when there is none

vars == << wb, tasks, docs, manifestFile, outFile, pc, mode, top15_only,
           sync_timeline, db_tasks, control_doc_id, manifest, current_src_tags,
           actions, db_answer, proc, prev >>

files  == << manifestFile, outFile >>
store  == << tasks, docs >>
locals == << mode, top15_only, sync_timeline, db_tasks, control_doc_id,
             manifest, current_src_tags, actions, db_answer >>

\* Two invocations of the script started by the caller without waiting.
Procs == {1, 2}

\* A process that has not started: where it is in main() and its locals, the
\* processes it found finished when it loaded (saw), and its rank among the
\* writers of the manifest (wrote_at, 0 before it writes).
NoProc ==
    [pc |-> "idle", mode |-> "", top15_only |-> FALSE, db_tasks |-> NoIndex,
     control_doc_id |-> 0, manifest |-> DefaultManifest,
     current_src_tags |-> << >>, actions |-> << >>, saw |-> {}, wrote_at |-> 0]

NoRun == [mode |-> "", top15_only |-> FALSE, removed |-> {}]

NoLocals ==
    /\ mode = "" /\ top15_only = FALSE /\ sync_timeline = FALSE
    /\ db_tasks = NoIndex /\ control_doc_id = 0 /\ manifest = DefaultManifest
    /\ current_src_tags = << >> /\ actions = << >>
    /\ db_answer = ""

Init ==
    /\ wb \in Workbooks
    /\ tasks = [i \in 1..MaxId |-> NoTag]
    /\ docs = 0
    /\ manifestFile = AbsentManifest
    /\ outFile = "absent"
    /\ pc = "idle"
    /\ NoLocals
    /\ proc = [p \in Procs |-> NoProc]
    /\ prev = NoRun

\* ----------------------------------------------------------------- main()

\* Line 55 raises AttributeError on a manifest that parsed to something other
\* than an object, unless the store already gave the control document.
Line55Raises(man, db_control_doc_id) == man.kind = "notdict" /\ db_control_doc_id = 0

\* Line 225 raises the same error in sync mode.
Line225Raises(m, man) == man.kind = "notdict" /\ m = "sync"

\* Mutant: the workbook is not looked for before it is loaded.
Ending_NoSourceCheck(db, m, man, st, book) ==
    IF StoreRaises(db) THEN "crashed"
    ELSE IF Line55Raises(man, st.control_doc_id) THEN "crashed"
    ELSE IF Line225Raises(m, man) THEN "crashed"
    ELSE "done"

\* How a run ends: an uncaught exception, exit(1) at line 61, or normally.
Ending(db, m, man, st, book) ==
    IF StoreRaises(db) THEN "crashed"
    ELSE IF Line55Raises(man, st.control_doc_id) THEN "crashed"
    ELSE IF book = NoWorkbook THEN "failed"
    ELSE IF Line225Raises(m, man) THEN "crashed"
    ELSE "done"

\* Mutant: the tags of the loaded manifest are merged into the one written.
Main_MergeManifest(m, t15, tl, db, index, order) ==
    LET st    == ReadStore(db, index, docs)
        man   == LoadManifest(manifestFile)
        ctrl  == IF man.kind = "notdict" THEN st.control_doc_id
                 ELSE ResolveControlDoc(st.control_doc_id, man)
        tags  == CurrentSrcTags(t15, wb)
        ended == Ending(db, m, man, st, wb)
    IN  /\ pc = "idle"
        /\ pc' = ended
        /\ db_answer' = db
        /\ mode' = m /\ top15_only' = t15 /\ sync_timeline' = tl
        /\ db_tasks' = st.db_tasks
        /\ manifest' = man
        /\ control_doc_id' = ctrl
        /\ IF ended = "done"
           THEN /\ current_src_tags' = tags
                /\ actions' = BuildActions(m, t15, tl, st.db_tasks, ctrl, man, wb, order)
                /\ outFile' = "payload"
                /\ manifestFile' = NewManifest(
                      tags \o SelectSeq(man.src_tags, LAMBDA t : t \notin Range(tags)), ctrl)
           ELSE /\ current_src_tags' = << >>
                /\ actions' = << >>
                /\ UNCHANGED files
        /\ UNCHANGED << wb, store, proc, prev >>

\* One run of main(), lines 16-301. m, t15 and tl are MODE, TOP15_ONLY and
\* SYNC_TIMELINE; db is how the store answers and index what its task query
\* yields; order is the iteration order of the removed-tags set.
Main(m, t15, tl, db, index, order) ==
    LET st    == ReadStore(db, index, docs)
        man   == LoadManifest(manifestFile)
        ctrl  == IF man.kind = "notdict" THEN st.control_doc_id
                 ELSE ResolveControlDoc(st.control_doc_id, man)
        tags  == CurrentSrcTags(t15, wb)
        ended == Ending(db, m, man, st, wb)
    IN  /\ pc = "idle"
        /\ pc' = ended
        /\ db_answer' = db
        /\ mode' = m /\ top15_only' = t15 /\ sync_timeline' = tl
        /\ db_tasks' = st.db_tasks
        /\ manifest' = man
        /\ control_doc_id' = ctrl
        /\ IF ended = "done"
           THEN /\ current_src_tags' = tags
                /\ actions' = BuildActions(m, t15, tl, st.db_tasks, ctrl, man, wb, order)
                /\ outFile' = "payload"
                /\ manifestFile' = NewManifest(tags, ctrl)
           ELSE /\ current_src_tags' = << >>
                /\ actions' = << >>
                /\ UNCHANGED files
        /\ UNCHANGED << wb, store, proc, prev >>

Run ==
    \E m \in {"create", "sync"}, t15 \in BOOLEAN, tl \in BOOLEAN,
       db \in StoreAnswers, index \in DbTaskIndexes(tasks) :
        LET st  == ReadStore(db, index, docs)
            man == LoadManifest(manifestFile)
            removed == IF Ending(db, m, man, st, wb) = "done"
                       THEN RemovedTags(m, man, CurrentSrcTags(t15, wb)) ELSE {}
        IN  \E order \in Orders(removed) : Main(m, t15, tl, db, index, order)

\* The process ends and its locals with it.
Exit ==
    /\ pc # "idle"
    /\ pc' = "idle"
    /\ mode' = "" /\ top15_only' = FALSE /\ sync_timeline' = FALSE
    /\ db_tasks' = NoIndex /\ control_doc_id' = 0 /\ manifest' = DefaultManifest
    /\ current_src_tags' = << >> /\ actions' = << >>
    /\ db_answer' = ""
    /\ prev' = IF pc = "done"
               THEN [mode |-> mode, top15_only |-> top15_only,
                     removed |-> { t \in DOMAIN db_tasks :
                                     \E k \in DOMAIN actions :
                                        /\ actions[k].status = "done"
                                        /\ actions[k].id = db_tasks[t] }]
               ELSE prev
    /\ UNCHANGED << wb, store, files, proc >>

\* ------------------------------------------------------------ environment

\* The user replaces, edits or removes the workbook between runs.
ChangeSource ==
    /\ pc = "idle"
    /\ \E w \in (Workbooks \cup {NoWorkbook}) \ {wb} : wb' = w
    /\ prev' = NoRun
    /\ UNCHANGED << store, files, pc, locals, proc >>

\* The store changes between runs: the executor applies a batch, or a user
\* edits or deletes a task, so that record i now carries tag t or none.
StoreTaskChange ==
    /\ pc = "idle"
    /\ \E i \in 1..MaxId, t \in Tags \cup {NoTag} : tasks' = [tasks EXCEPT ![i] = t]
    /\ UNCHANGED << wb, docs, files, pc, locals, proc, prev >>

\* A document with the control marker appears in or leaves the store.
StoreDocChange ==
    /\ pc = "idle"
    /\ \E d \in DocIds \cup {0} : docs' = d
    /\ UNCHANGED << wb, tasks, files, pc, locals, proc, prev >>

\* The manifest is deleted or damaged between runs.
ManifestDamage ==
    /\ pc = "idle"
    /\ \E k \in {"absent", "unparseable", "notdict"} :
          manifestFile' = [kind |-> k, src_tags |-> << >>, control_doc_id |-> 0]
    /\ UNCHANGED << wb, store, outFile, pc, locals, proc, prev >>

Next == Run \/ Exit \/ ChangeSource \/ StoreTaskChange \/ StoreDocChange \/ ManifestDamage

Spec == Init /\ [][Next]_vars

\* -------------------------------------------------------- overlapping runs

\* main() is not atomic when two processes run it: each reads the store and
\* the manifest (lines 17-56), and later reads the workbook, builds its batch
\* and writes the two files (lines 58-293). Nothing in the script locks the
\* manifest between the two steps. The runs below are those that complete.

\* How the store answers the processes.
OverlapAnswers == {"ok", "absent"}

\* A manifest an earlier completed run left behind.
LeftManifests ==
    { NewManifest(CurrentSrcTags(FALSE, w), 0) : w \in Workbooks }

InitOverlap ==
    /\ wb \in Workbooks
    /\ tasks \in [1..MaxId -> Tags \cup {NoTag}]
    /\ docs \in {0, 1}
    /\ manifestFile \in LeftManifests \cup {AbsentManifest}
    /\ outFile = IF manifestFile.kind = "valid" THEN "payload" ELSE "absent"
    /\ pc = "idle"
    /\ NoLocals
    /\ proc = [p \in Procs |-> NoProc]
    /\ prev = NoRun

\* Lines 17-56 in process p: the flags, the store and the manifest snapshot.
Load(p, m, t15, db, index) ==
    LET st  == ReadStore(db, index, docs)
        man == LoadManifest(manifestFile)
    IN  /\ proc[p].pc = "idle"
        /\ Ending(db, m, man, st, wb) = "done"
        /\ proc' = [proc EXCEPT ![p] =
              [NoProc EXCEPT !.pc = "loaded", !.mode = m, !.top15_only = t15,
                             !.db_tasks = st.db_tasks, !.manifest = man,
                             !.control_doc_id = ResolveControlDoc(st.control_doc_id, man),
                             !.saw = { q \in Procs : proc[q].pc = "done" }]]
        /\ UNCHANGED << wb, store, files, pc, locals, prev >>

\* Mutant: the process reads the manifest again before it writes, and keeps
\* the tags it finds there.
Reconcile_MergeManifest(p, order) ==
    LET me   == proc[p]
        tags == CurrentSrcTags(me.top15_only, wb)
        kept == SelectSeq(LoadManifest(manifestFile).src_tags,
                          LAMBDA t : t \notin Range(tags))
    IN  /\ me.pc = "loaded"
        /\ proc' = [proc EXCEPT ![p] =
              [me EXCEPT !.pc = "done", !.current_src_tags = tags,
                         !.actions = BuildActions(me.mode, me.top15_only, FALSE,
                                        me.db_tasks, me.control_doc_id,
                                        me.manifest, wb, order),
                         !.wrote_at = 1 + Cardinality({ q \in Procs : proc[q].pc = "done" })]]
        /\ outFile' = "payload"
        /\ manifestFile' = NewManifest(tags \o kept, me.control_doc_id)
        /\ UNCHANGED << wb, store, pc, locals, prev >>

\* Lines 58-293 in process p: the batch built from the snapshot of Load, then
\* the writes of OUT_FILE and MANIFEST_FILE. SYNC_TIMELINE is not set.
Reconcile(p, order) ==
    LET me   == proc[p]
        tags == CurrentSrcTags(me.top15_only, wb)
    IN  /\ me.pc = "loaded"
        /\ proc' = [proc EXCEPT ![p] =
              [me EXCEPT !.pc = "done", !.current_src_tags = tags,
                         !.actions = BuildActions(me.mode, me.top15_only, FALSE,
                                        me.db_tasks, me.control_doc_id,
                                        me.manifest, wb, order),
                         !.wrote_at = 1 + Cardinality({ q \in Procs : proc[q].pc = "done" })]]
        /\ outFile' = "payload"
        /\ manifestFile' = NewManifest(tags, me.control_doc_id)
        /\ UNCHANGED << wb, store, pc, locals, prev >>

LoadStep ==
    \E p \in Procs, m \in {"create", "sync"}, t15 \in BOOLEAN,
       db \in OverlapAnswers, index \in DbTaskIndexes(tasks) :
        Load(p, m, t15, db, index)

ReconcileStep ==
    \E p \in Procs :
        \E order \in Orders(RemovedTags(proc[p].mode, proc[p].manifest,
                                         CurrentSrcTags(proc[p].top15_only, wb))) :
            Reconcile(p, order)

NextOverlap == LoadStep \/ ReconcileStep

SpecOverlap == InitOverlap /\ [][NextOverlap]_vars

\* ================================================================= claims

\* What a batch says, read off its actions alone.
IsRowAction(a)    == a.title.kind = "row"
IsSoftDelete(a)   == a.type = "task.update" /\ a.status = "done"
IsControlDoc(a)   == a.title.kind = "control"
IsReferenceDoc(a) == a.title.kind = "reference"

\* The positions of the batch holding a row action of the given type for tag t.
RowActionsFor(t, type) ==
    { k \in DOMAIN actions :
        IsRowAction(actions[k]) /\ actions[k].type = type /\ actions[k].notes.tag = t }

\* The positions of the batch holding a soft-delete of record id.
SoftDeletesOf(id) ==
    { k \in DOMAIN actions : IsSoftDelete(actions[k]) /\ actions[k].id = id }

\* The rows of the run that were given tag t.
RowsTagged(t) == { i \in DOMAIN current_src_tags : current_src_tags[i] = t }

CurrentTags  == Range(current_src_tags)
PreviousTags == Range(manifest.src_tags)
Resolvable   == DOMAIN db_tasks

\* The rows the script tags, read off the workbook: table sheets, a
\* non-empty primary field, and the tier filter on NanaGarden sheets.
QualifyingRows(book, t15) ==
    { <<s, i>> \in (DOMAIN book) \X (1..3) :
        /\ book[s].is_table /\ book[s].header_row > 0
        /\ i \in DOMAIN book[s].rows
        /\ (book[s].rows[i].species # Empty \/ book[s].rows[i].first # Empty)
        /\ TierAllowed(book[s].name, book[s].rows[i], t15) }

TagOfRow(book, sr) ==
    [sheet |-> Replace(book[sr[1]].name, " ", "_"),
     row |-> book[sr[1]].header_row + sr[2]]

\* ---------------------------------------------------------------------- C1
\* Every row whose tag is resolvable gets an update at the indexed record id
\* and no create.
UpdatedNotCreated(t) ==
    /\ Cardinality(RowActionsFor(t, "task.update")) = Cardinality(RowsTagged(t))
    /\ \A k \in RowActionsFor(t, "task.update") : actions[k].id = db_tasks[t]
    /\ RowActionsFor(t, "task.create") = {}

\* C1 as stated: in any run, a tag of the current run that is in the manifest's
\* previous-known set and resolvable in the Existing-Record Index yields a task
\* update addressed at that record id and never a task create.
C1_AnyRun ==
    pc = "done" =>
        \A t \in CurrentTags \cap PreviousTags \cap Resolvable : UpdatedNotCreated(t)

\* C1 as amended: in a sync-mode run, a tag of the current run that is in the
\* manifest's previous-known set and resolvable in the Existing-Record Index
\* yields a task update addressed at that record id and never a task create.
C1_SyncUpdatesKnownTag ==
    (pc = "done" /\ mode = "sync") =>
        \A t \in CurrentTags \cap PreviousTags \cap Resolvable : UpdatedNotCreated(t)

C1_Witness ==
    /\ pc = "done" /\ mode = "sync"
    /\ \E t \in CurrentTags \cap PreviousTags \cap Resolvable :
          \E k \in RowActionsFor(t, "task.update") : actions[k].id = db_tasks[t]

\* ---------------------------------------------------------------------- C2
ActionTypes == {"task.create", "task.update", "doc.create", "doc.update"}

SoftDeleteRule ==
    /\ \A t \in (PreviousTags \ CurrentTags) \cap Resolvable :
          Cardinality(SoftDeletesOf(db_tasks[t])) = 1
    /\ \A k \in DOMAIN actions : actions[k].type \in ActionTypes
    /\ \A t \in CurrentTags \cap Resolvable : SoftDeletesOf(db_tasks[t]) = {}

\* C2 as stated: a tag present only in the previous manifest and resolvable to
\* a record yields exactly one soft-delete (a task update setting the state to
\* done) for that record, no delete action is emitted, and tags still present
\* get no soft-delete.
C2_AnyRun == pc = "done" => SoftDeleteRule

\* C2 as amended: the same, in sync mode.
C2_SyncSoftDeletes == (pc = "done" /\ mode = "sync") => SoftDeleteRule

C2_Witness ==
    /\ pc = "done" /\ mode = "sync"
    /\ \E t \in (PreviousTags \ CurrentTags) \cap Resolvable :
          Cardinality(SoftDeletesOf(db_tasks[t])) = 1
    /\ CurrentTags \cap PreviousTags # {}

\* ---------------------------------------------------------------------- C3
CreatedNotUpdated(t) ==
    /\ Cardinality(RowActionsFor(t, "task.create")) = Cardinality(RowsTagged(t))
    /\ RowActionsFor(t, "task.update") = {}

\* C3 as stated: a tag of the current run that is not in the previous
\* manifest's known tags yields a task create, whatever the mode and whatever
\* the Existing-Record Index contains.
C3_NewTagAlwaysCreated ==
    pc = "done" => \A t \in CurrentTags \ PreviousTags : CreatedNotUpdated(t)

\* C3 as amended: such a tag yields a task create when the mode is create or
\* the Existing-Record Index does not resolve it; in sync mode with the tag
\* resolvable it yields a task update at the indexed record instead.
C3_NewTagCreatedUnlessIndexed ==
    pc = "done" =>
        \A t \in CurrentTags \ PreviousTags :
            IF mode = "create" \/ t \notin Resolvable
            THEN CreatedNotUpdated(t) ELSE UpdatedNotCreated(t)

C3_Witness ==
    /\ pc = "done" /\ mode = "sync"
    /\ \E t \in CurrentTags \ PreviousTags :
          t \notin Resolvable /\ RowActionsFor(t, "task.create") # {}
    /\ \E t \in CurrentTags \ PreviousTags :
          t \in Resolvable /\ RowActionsFor(t, "task.update") # {}

\* ---------------------------------------------------------------------- C4
\* The tags of the rows that got an action in this run.
ActedTags == { actions[k].notes.tag : k \in { j \in DOMAIN actions : IsRowAction(actions[j]) } }

\* C4: after every completed run, in either mode, the persisted manifest's
\* known tags are exactly the tags tagged in that run; a tag of the previous
\* manifest survives only if it was seen again.
C4_ManifestSuperseded ==
    pc = "done" =>
        /\ manifestFile.kind = "valid"
        /\ Range(manifestFile.src_tags)
              = { TagOfRow(wb, sr) : sr \in QualifyingRows(wb, top15_only) }
        /\ Range(manifestFile.src_tags) = ActedTags
        /\ \A t \in PreviousTags \ ActedTags : t \notin Range(manifestFile.src_tags)

C4_Witness ==
    /\ pc = "done"
    /\ PreviousTags \ Range(manifestFile.src_tags) # {}
    /\ Range(manifestFile.src_tags) \ PreviousTags # {}

\* ---------------------------------------------------------------------- C5
TaskCreates == { k \in DOMAIN actions : actions[k].type = "task.create" }
RowUpdates  == { k \in DOMAIN actions : actions[k].type = "task.update"
                                          /\ ~IsSoftDelete(actions[k]) }
SoftDeleteActions == { k \in DOMAIN actions : IsSoftDelete(actions[k]) }

\* The run repeats the previous completed run: same workbook (prev is reset
\* when the workbook changes), same mode m and same priority-subset flag.
Repeats(m) == mode = m /\ prev.mode = m /\ prev.top15_only = top15_only

C6_ControlDocSingleton ==
    (pc = "done" /\ mode = "sync" /\ prev.mode = "sync") =>
        /\ actions[1].type = "doc.update"
        /\ manifest.control_doc_id # 0
        /\ actions[1].id = manifest.control_doc_id

\* ---------------------------------------------------------------------- C7
ControlDocActions == { k \in DOMAIN actions : IsControlDoc(actions[k]) }

SheetPos(a) == CHOOSE s \in DOMAIN wb : wb[s].name = a.title.sheet

\* C8: the control-document action is at position 0 of the batch (the first
\* element), the per-row task actions follow in sheet order and, within a
\* sheet, in increasing row index, and every soft-delete comes after every
\* row action and every reference-sheet document action.
C8_BatchOrder ==
    pc = "done" =>
        /\ IsControlDoc(actions[1])
        /\ \A k, l \in DOMAIN actions :
              (k < l /\ IsRowAction(actions[k]) /\ IsRowAction(actions[l])) =>
                 \/ SheetPos(actions[k]) < SheetPos(actions[l])
                 \/ /\ SheetPos(actions[k]) = SheetPos(actions[l])
                    /\ actions[k].notes.tag.row < actions[l].notes.tag.row
        /\ \A k, l \in DOMAIN actions :
              (IsSoftDelete(actions[k])
                 /\ (IsRowAction(actions[l]) \/ IsReferenceDoc(actions[l]))) => l < k

C8_Witness ==
    /\ pc = "done"
    /\ \E k, l, d \in DOMAIN actions :
          /\ IsRowAction(actions[k]) /\ IsRowAction(actions[l])
          /\ SheetPos(actions[k]) < SheetPos(actions[l])
          /\ IsSoftDelete(actions[d])
    /\ \E k, l \in DOMAIN actions :
          /\ IsRowAction(actions[k]) /\ IsRowAction(actions[l]) /\ k # l
          /\ SheetPos(actions[k]) = SheetPos(actions[l])

\* ---------------------------------------------------------------------- C9
\* C9 as stated: every table-sheet row with a non-empty primary field that the
\* run keeps yields exactly one source tag, and no two distinct rows of the
\* workbook, of the same or of different sheets, receive the same tag.
C9_TagsUnique ==
    pc = "done" =>
        /\ Len(current_src_tags) = Cardinality(QualifyingRows(wb, top15_only))
        /\ \A i, j \in DOMAIN current_src_tags :
              i # j => current_src_tags[i] # current_src_tags[j]

\* --------------------------------------------------------------------- C10
\* C10: create mode never consults history. In create mode every tagged row
\* yields a task create whatever the manifest and the index contain, and no
\* task update, hence no soft-delete, is emitted; a create run repeated on an
\* unchanged source emits the full set of creates again.
C10_CreateIgnoresHistory ==
    (pc = "done" /\ mode = "create") =>
        /\ \A t \in CurrentTags : CreatedNotUpdated(t)
        /\ Cardinality(TaskCreates) = Cardinality(QualifyingRows(wb, top15_only))
        /\ \A k \in DOMAIN actions : actions[k].type # "task.update"

C10_Witness ==
    /\ pc = "done" /\ Repeats("create")
    /\ Cardinality(TaskCreates) = Len(current_src_tags)
    /\ CurrentTags \cap PreviousTags \cap Resolvable # {}
    /\ (PreviousTags \ CurrentTags) \cap Resolvable = {}
    /\ manifestFile.src_tags = manifest.src_tags

\* --------------------------------------------------------------------- C11
\* The tags the run dropped: in the manifest it loaded, not in the one it wrote.
DroppedTags == PreviousTags \ Range(manifestFile.src_tags)

\* The records of the store whose notes carry tag t.
RecordsOf(t) == { i \in DOMAIN tasks : tasks[i] = t }

\* C11 as stated: in any run, create or sync, a tag recorded in the manifest
\* whose row disappeared from the source and whose record exists in the store
\* is not dropped from the manifest unless the run emitted a soft-delete for
\* its record.
C11_NeverLost ==
    pc = "done" =>
        \A t \in DroppedTags :
            RecordsOf(t) # {} => \E i \in RecordsOf(t) : SoftDeletesOf(i) # {}

\* C11 as amended: in a sync-mode run, a tag of the loaded manifest that the
\* Existing-Record Index of the run resolves is dropped from the manifest only
\* if its row is absent from the source and the run emitted a soft-delete for
\* the indexed record.
C11_SyncDropsWithSoftDelete ==
    (pc = "done" /\ mode = "sync") =>
        \A t \in DroppedTags \cap Resolvable :
            /\ t \notin CurrentTags
            /\ db_tasks[t] \in RecordsOf(t)
            /\ SoftDeletesOf(db_tasks[t]) # {}

C11_Witness ==
    /\ pc = "done" /\ mode = "sync"
    /\ \E t \in DroppedTags \cap Resolvable : SoftDeletesOf(db_tasks[t]) # {}
    /\ Range(manifestFile.src_tags) \cap PreviousTags # {}

\* --------------------------------------------------------------------- C12
\* The positions of the batch holding the update of an existing row.
RowUpdateActions ==
    { k \in DOMAIN actions : IsRowAction(actions[k]) /\ actions[k].type = "task.update" }

\* The action carries one of status, schedule_bucket, scheduled_date.
CarriesWorkflowState(a) ==
    a.status # "" \/ a.schedule_bucket # "" \/ a.scheduled_date # Empty

\* C12: every update of an existing row refreshes title, workspace and notes
\* (the notes carrying the project marker and the row's tag); status, schedule
\* bucket and scheduled date are in the payload only when timeline-sync is
\* enabled, so with timeline-sync disabled no row update carries any of them.
C12_TimelineFieldsOnlyWhenEnabled ==
    pc = "done" =>
        \A k \in RowUpdateActions :
            /\ actions[k].title.sheet # Empty /\ actions[k].title.primary # Empty
            /\ actions[k].workspace \in {"content", "ops", "avacrm"}
            /\ actions[k].notes.project /\ actions[k].notes.tag \in CurrentTags
            /\ CarriesWorkflowState(actions[k]) => sync_timeline
            /\ CarriesWorkflowState(actions[k]) =>
                  /\ actions[k].status = "planned"
                  /\ actions[k].schedule_bucket = "morning"
                  /\ Len(actions[k].scheduled_date) = 10

C12_Witness ==
    /\ pc = "done" /\ sync_timeline
    /\ \E k \in RowUpdateActions :
          /\ actions[k].status = "planned"
          /\ actions[k].scheduled_date = <<"2","0","2","6","-","0","1","-","0","5">>

\* --------------------------------------------------------------------- C13
\* The tier field contains "hero" or "signature", case-insensitively.
TierMatches(row) ==
    \/ Contains(<<"h","e","r","o">>, Lower(row.tier))
    \/ Contains(<<"s","i","g","n","a","t","u","r","e">>, Lower(row.tier))

\* The rows of table sheets with a primary field and a matching tier.
PriorityRows(book) ==
    { <<s, i>> \in (DOMAIN book) \X (1..3) :
        /\ book[s].is_table /\ book[s].header_row > 0
        /\ i \in DOMAIN book[s].rows
        /\ (book[s].rows[i].species # Empty \/ book[s].rows[i].first # Empty)
        /\ TierMatches(book[s].rows[i]) }

\* C13 as stated: with the priority-subset flag enabled, a row of any table
\* sheet is tagged and gets an action if and only if its tier field contains
\* "hero" or "signature": the run's tags, the tags of its row actions and the
\* tags of the new manifest are exactly those of the matching rows.
C13_FilterOnAnySheet ==
    (pc = "done" /\ top15_only) =>
        /\ CurrentTags = { TagOfRow(wb, sr) : sr \in PriorityRows(wb) }
        /\ Len(current_src_tags) = Cardinality(PriorityRows(wb))
        /\ Cardinality({ k \in DOMAIN actions : IsRowAction(actions[k]) })
              = Cardinality(PriorityRows(wb))
        /\ manifestFile.src_tags = current_src_tags

\* --------------------------------------------------------------------- C14
\* The store could not be opened, or one of its queries failed.
StoreFailed == db_answer \in StoreAnswers \ {"ok"}

\* C14 as stated: if the store cannot be opened or any of its queries fails,
\* the run does not abort and the Existing-Record Index is empty; in sync mode
\* every tagged row then yields a task create and the batch holds no task
\* update, hence no soft-delete. (Runs that end for another reason, a missing
\* workbook or a manifest that is not an object, are left out.)
C14_StoreFailureEmptyIndex ==
    (pc # "idle" /\ StoreFailed /\ wb # NoWorkbook /\ manifest.kind # "notdict") =>
        /\ pc = "done"
        /\ db_tasks = NoIndex
        /\ mode = "sync" =>
              /\ \A t \in CurrentTags : CreatedNotUpdated(t)
              /\ \A k \in DOMAIN actions : actions[k].type # "task.update"

\* --------------------------------------------------------------------- C15
\* The run loaded no usable manifest: the file was absent or unparseable (the
\* default stays) or parsed to something that is not an object.
NoUsableManifest == manifest.kind = "notdict" \/ manifest = DefaultManifest

\* C15 as stated: a manifest that is absent or malformed in any way is treated
\* as an empty manifest: the run completes, computes no soft-delete from it and
\* writes the batch and a new manifest. (Runs that end because the workbook is
\* missing or the store file is not a database are left out.)
C15_MalformedManifestTolerated ==
    (pc # "idle" /\ NoUsableManifest /\ wb # NoWorkbook /\ ~StoreRaises(db_answer)) =>
        /\ pc = "done"
        /\ SoftDeleteActions = {}
        /\ outFile = "payload"
        /\ manifestFile = NewManifest(current_src_tags, control_doc_id)

\* --------------------------------------------------------------------- C16
\* C16: when the source document is missing the run ends in a failed state
\* before any action is emitted: it never completes, it builds no action, and
\* it leaves the action batch file and the persisted manifest as they were.
\* It ends at the exit of line 61 unless an earlier line already raised.
C16_SourceMissingAborts ==
    [][ (pc = "idle" /\ pc' # "idle" /\ wb = NoWorkbook) =>
            /\ pc' \in {"failed", "crashed"}
            /\ pc' = "crashed" <=>
                  (StoreRaises(db_answer') \/ Line55Raises(manifest', control_doc_id'))
            /\ actions' = << >> /\ current_src_tags' = << >>
            /\ UNCHANGED files ]_vars

C16_Witness ==
    /\ pc = "failed" /\ wb = NoWorkbook
    /\ outFile = "payload"
    /\ manifestFile.kind = "valid" /\ manifestFile.src_tags # << >>
    /\ actions = << >>

\* --------------------------------------------------------------------- C17
\* The positions of the batch holding a document action made from sheet s.
ReferenceActionsOf(s) ==
    { k \in DOMAIN actions :
        IsReferenceDoc(actions[k]) /\ actions[k].title.sheet = wb[s].name }

\* C17: every reference sheet produces exactly one document create in every
\* run, in create and in sync mode alike, contributes no tag to the run's tags
\* or to the manifest, and no document update is ever made from it.
C17_ReferenceSheetCreated ==
    pc = "done" =>
        \A s \in DOMAIN wb :
            ~IsTableSheet(wb[s]) =>
                /\ Cardinality(ReferenceActionsOf(s)) = 1
                /\ \A k \in ReferenceActionsOf(s) :
                      actions[k].type = "doc.create" /\ actions[k].id = 0
                /\ \A t \in CurrentTags \cup Range(manifestFile.src_tags) :
                      t.sheet # Replace(wb[s].name, " ", "_")

C17_Witness ==
    /\ pc = "done" /\ mode = "sync" /\ prev.mode # ""
    /\ \E s \in DOMAIN wb : ~IsTableSheet(wb[s]) /\ ReferenceActionsOf(s) # {}
    /\ RowUpdateActions # {}

\* --------------------------------------------------------------------- C19
\* The positions of the batch holding an action addressed at task record id.
TaskActionsAt(id) ==
    { k \in DOMAIN actions : actions[k].type = "task.update" /\ actions[k].id = id }

\* C19 as stated: every task update of a batch, row update or soft-delete,
\* carries a record id taken from the Existing-Record Index, and no record id
\* is the target of more than one action of the batch.
C19_RecordTargetedOnce ==
    pc = "done" =>
        /\ \A k \in DOMAIN actions :
              actions[k].type = "task.update" =>
                 \E t \in Resolvable : db_tasks[t] = actions[k].id
        /\ \A id \in 1..MaxId : Cardinality(TaskActionsAt(id)) <= 1

\* --------------------------------------------------------------------- C20
\* C20: a disappearance is soft-deleted at most once. When a sync run follows
\* a completed sync run on the same workbook, a tag that the first soft-deleted
\* and that is again absent from the source is not in the manifest the second
\* loads, and the second emits no soft-delete for its record.
C20_SoftDeletedOnce ==
    (pc = "done" /\ mode = "sync" /\ prev.mode = "sync") =>
        \A t \in prev.removed \ CurrentTags :
            /\ t \notin PreviousTags
            /\ t \in Resolvable => SoftDeletesOf(db_tasks[t]) = {}

C20_Witness ==
    /\ pc = "done" /\ mode = "sync" /\ prev.mode = "sync"
    /\ \E t \in prev.removed \ CurrentTags : t \in Resolvable
    /\ manifest.src_tags = current_src_tags
    /\ current_src_tags # << >>

\* --------------------------------------------------------------------- C18
\* The record ids process p soft-deleted and the tags it created.
SoftDeletedBy(p) ==
    { proc[p].actions[k].id :
        k \in { j \in DOMAIN proc[p].actions : IsSoftDelete(proc[p].actions[j]) } }

CreatedBy(p) ==
    { proc[p].actions[k].notes.tag :
        k \in { j \in DOMAIN proc[p].actions : proc[p].actions[j].type = "task.create" } }

BothDone == \A p \in Procs : proc[p].pc = "done"

\* The runs were serialized: one loaded after the other had written.
Serialized == BothDone /\ \E p \in Procs : proc[p].saw # {}

\* The runs overlapped: both loaded before either wrote.
Overlapped == BothDone /\ \A p \in Procs : proc[p].saw = {}

\* C18 as stated, its second half: runs serialized externally, each loading
\* the manifest after the previous one wrote it, never both emit the same
\* soft-delete or the same create for one tag.
C18_SerializedNeverRepeat ==
    Serialized =>
        /\ SoftDeletedBy(1) \cap SoftDeletedBy(2) = {}
        /\ CreatedBy(1) \cap CreatedBy(2) = {}

\* C18 as amended: nothing orders the two processes, and the manifest left by
\* two completed runs is the one of the process that wrote last, with no tag
\* of the other merged in; serialized runs, the second loading the manifest
\* the first wrote, never both soft-delete the same record, and they both
\* create the same tag only if the second runs in create mode or its
\* Existing-Record Index does not resolve the tag.
C18_LastWriterWins ==
    BothDone =>
        /\ \E p \in Procs :
              /\ proc[p].wrote_at = Cardinality(Procs)
              /\ manifestFile = NewManifest(proc[p].current_src_tags,
                                            proc[p].control_doc_id)
        /\ \A p, q \in Procs :
              q \in proc[p].saw =>
                 /\ proc[p].manifest.src_tags = proc[q].current_src_tags
                 /\ SoftDeletedBy(p) \cap SoftDeletedBy(q) = {}
                 /\ \A t \in CreatedBy(p) \cap CreatedBy(q) :
                       proc[p].mode = "create" \/ t \notin DOMAIN proc[p].db_tasks

\* The lost update: two sync runs loaded the same manifest snapshot, both
\* soft-deleted the same record and both created the same tag, and the
\* manifest of the first writer is gone.
C18_Witness ==
    /\ Overlapped
    /\ proc[1].manifest = proc[2].manifest
    /\ proc[1].mode = "sync" /\ proc[2].mode = "sync"
    /\ SoftDeletedBy(1) \cap SoftDeletedBy(2) # {}
    /\ CreatedBy(1) \cap CreatedBy(2) # {}
    /\ proc[1].current_src_tags # proc[2].current_src_tags
    /\ proc[1].wrote_at = 1
    /\ manifestFile.src_tags = proc[2].current_src_tags

====
